---------------------------- MODULE Spec2Model ----------------------------
(***************************************************************************)
(* A model of iterator_utilities: the lookahead buffer of src/buffer.rs    *)
(* (IteratorBuffer) over a finite source iterator.                         *)
(*                                                                         *)
(* The struct is the record ib = [iterator, opening, closing, size,        *)
(* buffer].  The wrapped iterator is the record [seq, pos, calls]: the     *)
(* sequence it yields, how many elements it has yielded, and how many      *)
(* times its next() has been invoked.  Option<T> is a sequence of length   *)
(* at most one: None is <<>> and Some(x) is <<x>>.  A panic (Vec::remove   *)
(* or slice indexing out of range) ends the run: the state keeps what the  *)
(* method had done when it panicked and no further operation is taken.     *)
(* usize arithmetic is unbounded here: size + 1 cannot wrap for a window   *)
(* that Vec::with_capacity can allocate.                                   *)
(***************************************************************************)
EXTENDS Integers, Sequences, FiniteSets, TLC

(* ------------------------------ bounds -------------------------------- *)
\* longest source sequence
MaxSrc == 2
\* largest requested window size (argument `size` of new)
MaxWin == 1
\* longest slice passed as replacement, prefix or suffix
MaxRep == 2
\* total number of elements all replace calls of a run may insert
MaxIns == 2

\* element values: two suffice to tell elements apart by equality
Elt == {0, 1}

RECURSIVE SeqsUpTo(_)
SeqsUpTo(n) ==
    IF n = 0 THEN {<<>>}
    ELSE LET shorter == SeqsUpTo(n - 1)
         IN  shorter \cup {Append(s, e) : s \in {t \in shorter : Len(t) = n - 1}, e \in Elt}

Sources == SeqsUpTo(MaxSrc)
Slices  == SeqsUpTo(MaxRep)

(* ------------------------------ Option -------------------------------- *)
None == <<>>
Some(x) == <<x>>

(* -------------------------- Vec and slices ---------------------------- *)
\* Vec::remove(index), for index < len: the later elements shift left
remove(v, index) == SubSeq(v, 1, index) \o SubSeq(v, index + 2, Len(v))

\* Vec::insert(index, element), for index <= len: the later elements shift right
insert(v, index, element) ==
    SubSeq(v, 1, index) \o <<element>> \o SubSeq(v, index + 1, Len(v))

\* Vec::push
push(v, item) == Append(v, item)

\* slice::starts_with
slice_starts_with(v, needle) ==
    Len(needle) <= Len(v) /\ SubSeq(v, 1, Len(needle)) = needle

\* slice::ends_with
slice_ends_with(v, needle) ==
    Len(needle) <= Len(v) /\ SubSeq(v, Len(v) - Len(needle) + 1, Len(v)) = needle

(* ----------------------------- the source ----------------------------- *)
\* Iterator::next of a finite source: the next element or None, counting the call
next(it) ==
    IF it.pos < Len(it.seq)
    THEN [item |-> Some(it.seq[it.pos + 1]),
          it   |-> [it EXCEPT !.pos = @ + 1, !.calls = @ + 1]]
    ELSE [item |-> None,
          it   |-> [it EXCEPT !.calls = @ + 1]]

(* --------------------------- IteratorBuffer --------------------------- *)
is_opening(self) == self.opening

is_closing(self) == self.closing

len(self) == Len(self.buffer)

buffer(self) == self.buffer

\* fill with `loop { match next { Some => push, None => { closing = true; break } } }`
\* guarded by the length alone: a closed buffer queries its source again
RECURSIVE fill_requery(_)
fill_requery(self) ==
    IF Len(self.buffer) < self.size
    THEN LET n == next(self.iterator)
         IN  IF n.item # None
             THEN fill_requery([self EXCEPT !.iterator = n.it,
                                            !.buffer = push(@, n.item[1])])
             ELSE [self EXCEPT !.iterator = n.it, !.closing = TRUE]
    ELSE self

\* fill with `if` for `while`: at most one element is pulled
fill_once(self) ==
    IF ~self.closing /\ Len(self.buffer) < self.size
    THEN LET n == next(self.iterator)
         IN  IF n.item # None
             THEN [self EXCEPT !.iterator = n.it, !.buffer = push(@, n.item[1])]
             ELSE [self EXCEPT !.iterator = n.it, !.closing = TRUE]
    ELSE self

\* fill with `<=` for `<`: one element too many is pulled
RECURSIVE fill_over(_)
fill_over(self) ==
    IF ~self.closing /\ Len(self.buffer) <= self.size
    THEN LET n == next(self.iterator)
         IN  IF n.item # None
             THEN fill_over([self EXCEPT !.iterator = n.it,
                                         !.buffer = push(@, n.item[1])])
             ELSE fill_over([self EXCEPT !.iterator = n.it, !.closing = TRUE])
    ELSE self

RECURSIVE fill(_)
fill(self) ==
    IF ~self.closing /\ Len(self.buffer) < self.size
    THEN LET n == next(self.iterator)
         IN  IF n.item # None
             THEN fill([self EXCEPT !.iterator = n.it,
                                    !.buffer = push(@, n.item[1])])
             ELSE fill([self EXCEPT !.iterator = n.it, !.closing = TRUE])
    ELSE self

\* new without the extra slot: size for size + 1
new_noextra(it, size) ==
    fill([iterator |-> it,
          opening  |-> TRUE,
          closing  |-> FALSE,
          size     |-> size,
          buffer   |-> <<>>])

new(it, size) ==
    fill([iterator |-> it,
          opening  |-> TRUE,
          closing  |-> FALSE,
          size     |-> size + 1,
          buffer   |-> <<>>])

\* pop taking the element from the back of the buffer
pop_back(self) ==
    LET s1 == fill([self EXCEPT !.opening = FALSE])
    IN  IF s1.buffer = <<>>
        THEN [self |-> s1, res |-> None]
        ELSE LET res == s1.buffer[Len(s1.buffer)]
                 s2  == [s1 EXCEPT !.buffer = remove(@, Len(@) - 1)]
             IN  [self |-> fill(s2), res |-> Some(res)]

\* pop without its first fill
pop_nofill(self) ==
    LET s1 == [self EXCEPT !.opening = FALSE]
    IN  IF s1.buffer = <<>>
        THEN [self |-> s1, res |-> None]
        ELSE LET res == s1.buffer[1]
                 s2  == [s1 EXCEPT !.buffer = remove(@, 0)]
             IN  [self |-> fill(s2), res |-> Some(res)]

\* pop clearing `opening` only when it yields an element
pop_lateflag(self) ==
    LET s1 == fill(self)
    IN  IF s1.buffer = <<>>
        THEN [self |-> s1, res |-> None]
        ELSE LET res == s1.buffer[1]
                 s2  == [s1 EXCEPT !.buffer = remove(@, 0), !.opening = FALSE]
             IN  [self |-> fill(s2), res |-> Some(res)]

\* pop with neither fill
pop_norefill(self) ==
    LET s1 == [self EXCEPT !.opening = FALSE]
    IN  IF s1.buffer = <<>>
        THEN [self |-> s1, res |-> None]
        ELSE [self |-> [s1 EXCEPT !.buffer = remove(@, 0)], res |-> Some(s1.buffer[1])]

pop(self) ==
    LET s1 == fill([self EXCEPT !.opening = FALSE])
    IN  IF s1.buffer = <<>>
        THEN [self |-> s1, res |-> None]
        ELSE LET res == s1.buffer[1]
                 s2  == [s1 EXCEPT !.buffer = remove(@, 0)]
             IN  [self |-> fill(s2), res |-> Some(res)]

\* the removal loop with `1..len` for `0..len`: one element too few is removed
RECURSIVE replace_remove_short(_, _)
replace_remove_short(v, n) ==
    IF n <= 1 THEN [buffer |-> v, panic |-> FALSE]
    ELSE IF v = <<>> THEN [buffer |-> v, panic |-> TRUE]
    ELSE replace_remove_short(remove(v, 0), n - 1)

\* the removal loop taking elements from the back of the buffer
RECURSIVE replace_remove_back(_, _)
replace_remove_back(v, n) ==
    IF n = 0 THEN [buffer |-> v, panic |-> FALSE]
    ELSE IF v = <<>> THEN [buffer |-> v, panic |-> TRUE]
    ELSE replace_remove_back(remove(v, Len(v) - 1), n - 1)

\* `for _ in 0..len { self.buffer.remove(0); }`: remove(0) panics on an empty Vec
RECURSIVE replace_remove(_, _)
replace_remove(v, n) ==
    IF n = 0 THEN [buffer |-> v, panic |-> FALSE]
    ELSE IF v = <<>> THEN [buffer |-> v, panic |-> TRUE]
    ELSE replace_remove(remove(v, 0), n - 1)

\* the insertion loop with insert(0, ..) for insert(i, ..): the copies end up reversed
RECURSIVE replace_insert_front(_, _, _)
replace_insert_front(v, replacement, i) ==
    IF i >= Len(replacement) THEN v
    ELSE replace_insert_front(insert(v, 0, replacement[i + 1]), replacement, i + 1)

\* `for i in 0..replacement.len() { self.buffer.insert(i, replacement[i].clone()); }`
RECURSIVE replace_insert(_, _, _)
replace_insert(v, replacement, i) ==
    IF i >= Len(replacement) THEN v
    ELSE replace_insert(insert(v, i, replacement[i + 1]), replacement, i + 1)

\* replace followed by a fill
replace_fill(self, length, replacement) ==
    LET r == replace_remove(self.buffer, length)
    IN  IF r.panic
        THEN [self |-> [self EXCEPT !.buffer = r.buffer], panic |-> TRUE]
        ELSE [self  |-> fill([self EXCEPT !.buffer = replace_insert(r.buffer, replacement, 0)]),
              panic |-> FALSE]

replace(self, length, replacement) ==
    LET r == replace_remove(self.buffer, length)
    IN  IF r.panic
        THEN [self |-> [self EXCEPT !.buffer = r.buffer], panic |-> TRUE]
        ELSE [self  |-> [self EXCEPT !.buffer = replace_insert(r.buffer, replacement, 0)],
              panic |-> FALSE]

\* starts_with without the test of `opening`
starts_with_noflag(self, prefix) ==
    IF Len(prefix) <= Len(self.buffer)
    THEN slice_starts_with(self.buffer, prefix)
    ELSE FALSE

starts_with(self, prefix) ==
    IF self.opening /\ Len(prefix) <= Len(self.buffer)
    THEN slice_starts_with(self.buffer, prefix)
    ELSE FALSE

\* ends_with with `<=` for `==`: any suffix of the window is accepted
ends_with_atleast(self, suffix) ==
    IF self.closing /\ Len(suffix) <= Len(self.buffer)
    THEN slice_ends_with(self.buffer, suffix)
    ELSE FALSE

\* ends_with with `<` for `==`: "the buffer must be larger than the suffix"
ends_with_larger(self, suffix) ==
    IF self.closing /\ Len(suffix) < Len(self.buffer)
    THEN slice_ends_with(self.buffer, suffix)
    ELSE FALSE

ends_with(self, suffix) ==
    IF self.closing /\ Len(suffix) = Len(self.buffer)
    THEN slice_ends_with(self.buffer, suffix)
    ELSE FALSE

\* Index::index: &self.buffer[index], which panics when index >= len
index(self, i) ==
    IF i < Len(self.buffer)
    THEN [res |-> Some(self.buffer[i + 1]), panic |-> FALSE]
    ELSE [res |-> None, panic |-> TRUE]

\* index_mut without its fill
index_mut_nofill(self, i) ==
    [self |-> self, panic |-> ~(i < Len(self.buffer))]

\* IndexMut::index_mut: fill, then &mut self.buffer[index]
index_mut(self, i) ==
    LET s1 == fill(self)
    IN  [self |-> s1, panic |-> ~(i < Len(s1.buffer))]

(* ------------------------------ EqClIter ------------------------------ *)
\* The predicate F is the set of the pairs <<l, r>> it holds of.

\* `while i < self.vect.len() && (self.pred)(&self.vect[self.last], &self.vect[i]) { i += 1; }`
RECURSIVE EqClIter_scan(_, _)
EqClIter_scan(self, i) ==
    IF i < Len(self.vect) /\ <<self.vect[self.last + 1], self.vect[i + 1]>> \in self.pred
    THEN EqClIter_scan(self, i + 1)
    ELSE i

\* next with `self.last = i + 1`: the element after each run is skipped
EqClIter_next_skip(self) ==
    IF self.last >= Len(self.vect)
    THEN [self |-> self, res |-> None]
    ELSE LET i == EqClIter_scan(self, self.last)
         IN  [self |-> [self EXCEPT !.last = i + 1],
              res  |-> Some(SubSeq(self.vect, self.last + 1, i))]

\* Iterator::next of EqClIter: the next run, self.vect[self.last..i], or None
EqClIter_next(self) ==
    IF self.last >= Len(self.vect)
    THEN [self |-> self, res |-> None]
    ELSE LET i == EqClIter_scan(self, self.last)
         IN  [self |-> [self EXCEPT !.last = i],
              res  |-> Some(SubSeq(self.vect, self.last + 1, i))]

equivalence_classes(slice, predicate) ==
    [vect |-> slice, pred |-> predicate, last |-> 0]

\* Empty::new() of empty.rs: an iterator whose next() is always None
Empty == [seq |-> <<>>, pos |-> 0, calls |-> 0]

(* ------------------------------- state -------------------------------- *)
VARIABLES
    ib,        \* the IteratorBuffer
    last,      \* the latest operation: [op, args, res, panic]
    popped,    \* history: the elements pop has returned, in order
    edited,    \* history: an index write or a replace has been called
    inserted,  \* history: how many elements replace calls have inserted
    replaced,  \* history: a replace has been called
    eq,        \* the EqClIter of equivalence_class.rs
    runs,      \* history: the runs the EqClIter has yielded, in order
    ended      \* history: the EqClIter's latest next() returned None

bufvars == <<ib, last, popped, edited, inserted, replaced>>

eqvars == <<eq, runs, ended>>

vars == <<bufvars, eqvars>>

\* the grouping iterator takes no part in a run of the buffer
EqIdle ==
    /\ eq = equivalence_classes(<<>>, {})
    /\ runs = <<>>
    /\ ended = FALSE

Call(op, args, res, panic) == [op |-> op, args |-> args, res |-> res, panic |-> panic]

Init ==
    /\ \E seq \in Sources, size \in 0..MaxWin :
          /\ ib = new([seq |-> seq, pos |-> 0, calls |-> 0], size)
          /\ last = Call("new", <<size>>, None, FALSE)
    /\ popped = <<>>
    /\ edited = FALSE
    /\ inserted = 0
    /\ replaced = FALSE
    /\ EqIdle

Pop ==
    /\ ~last.panic
    /\ LET r == pop(ib)
       IN  /\ ib' = r.self
           /\ last' = Call("pop", <<>>, r.res, FALSE)
           /\ popped' = IF r.res = None THEN popped ELSE Append(popped, r.res[1])
    /\ UNCHANGED <<edited, inserted, replaced>>
    /\ UNCHANGED eqvars

Replace ==
    /\ ~last.panic
    /\ \E length \in 0..(len(ib) + 1), replacement \in Slices :
          /\ inserted + Len(replacement) <= MaxIns
          /\ LET r == replace(ib, length, replacement)
             IN  /\ ib' = r.self
                 /\ last' = Call("replace", <<length, replacement>>, None, r.panic)
                 /\ inserted' = IF r.panic THEN inserted ELSE inserted + Len(replacement)
    /\ edited' = TRUE
    /\ replaced' = TRUE
    /\ UNCHANGED popped
    /\ UNCHANGED eqvars

\* ib[i]: a read changes nothing; out of range it panics
Index ==
    /\ ~last.panic
    /\ \E i \in 0..len(ib) :
          LET r == index(ib, i)
          IN  IF r.panic
              THEN /\ last' = Call("index", <<i>>, r.res, TRUE)
                   /\ UNCHANGED <<ib, popped, edited, inserted, replaced>>
              ELSE UNCHANGED bufvars
    /\ UNCHANGED eqvars

\* ib[i] = value
IndexMut ==
    /\ ~last.panic
    /\ \E i \in 0..len(fill(ib)), value \in Elt :
          LET r == index_mut(ib, i)
          IN  /\ ib' = IF r.panic THEN r.self
                       ELSE [r.self EXCEPT !.buffer[i + 1] = value]
              /\ last' = Call("index_mut", <<i, value>>, None, r.panic)
    /\ edited' = TRUE
    /\ UNCHANGED <<popped, inserted, replaced>>
    /\ UNCHANGED eqvars

\* ib.starts_with(prefix): &self, the state is as it was
StartsWith ==
    /\ ~last.panic
    /\ \A prefix \in Slices : starts_with(ib, prefix) \in BOOLEAN
    /\ UNCHANGED bufvars
    /\ UNCHANGED eqvars

\* ib.ends_with(suffix): &self, the state is as it was
EndsWith ==
    /\ ~last.panic
    /\ \A suffix \in Slices : ends_with(ib, suffix) \in BOOLEAN
    /\ UNCHANGED bufvars
    /\ UNCHANGED eqvars

Next == Pop \/ Replace \/ Index \/ IndexMut \/ StartsWith \/ EndsWith

Spec == Init /\ [][Next]_vars

(* --------------------------- state functions --------------------------- *)
source == ib.iterator.seq
capacity == ib.size
window_size == ib.size - 1
\* the source elements not yet pulled
pending == SubSeq(source, ib.iterator.pos + 1, Len(source))

\* replace's arguments at the latest call, when that call was a replace
remove_count == last.args[1]
replacement_elements == last.args[2]

(* ------------------------------- claims -------------------------------- *)

\* C1: in a run of pops alone (no replace, no index write), the elements popped so
\* far followed by the window are exactly the source elements pulled so far, in
\* source order; when pop returns None the popped elements are the whole source,
\* as many Some results as the source has elements.
C1_PopYieldsSource ==
    ~edited =>
        /\ popped \o buffer(ib) = SubSeq(source, 1, ib.iterator.pos)
        /\ (last.op = "pop" /\ last.res = None) =>
               (popped = source /\ Len(popped) = Len(source))

C1_Witness ==
    /\ ~edited /\ last.op = "pop" /\ last.res = None
    /\ Len(popped) >= 2 /\ popped[1] # popped[2]

\* C2 as stated: in every reachable state the window length is at most capacity.
C2_LengthAtMostCapacity == len(ib) <= capacity

\* C2 amended: in every reachable state the window length is at most capacity
\* plus the number of elements replace calls have inserted, so it is at most
\* capacity as long as no replace has inserted an element.
C2_LengthAtMostCapacityPlusInserted == len(ib) <= capacity + inserted

C2_Witness == inserted > 0 /\ len(ib) = capacity + inserted

\* C3 as stated: after new, pop, an index write or replace has returned, a buffer
\* that is not closing holds at least window_size elements.
C3_LookaheadAfterAnyOperation ==
    (~last.panic /\ last.op \in {"new", "pop", "index_mut", "replace"}
        /\ ~is_closing(ib))
    => len(ib) >= window_size

\* C3 amended: after new, pop or an index write has returned, a buffer that is not
\* closing holds at least window_size elements (replace does not refill).
C3_LookaheadAfterRefill ==
    (~last.panic /\ last.op \in {"new", "pop", "index_mut"} /\ ~is_closing(ib))
    => len(ib) >= window_size

C3_Witness ==
    /\ last.op = "pop" /\ last.res # None /\ ~is_closing(ib)
    /\ window_size >= 1 /\ len(ib) >= window_size

C7_Pop ==
    [][last'.op = "pop" =>
          LET avail == buffer(ib) \o pending
          IN  IF avail = <<>>
              THEN last'.res = None /\ is_closing(ib') /\ buffer(ib') = <<>>
              ELSE /\ last'.res = Some(Head(avail))
                   /\ len(ib') <= Len(avail) - 1
                   /\ buffer(ib') = SubSeq(Tail(avail), 1, len(ib'))
                   /\ len(ib') >= len(ib) - 1
                   /\ is_closing(ib') \/ len(ib') >= capacity]_vars

C7_Witness ==
    /\ last.op = "pop" /\ last.res = None /\ is_closing(ib) /\ len(ib) = 0
    /\ edited /\ Len(popped) >= 2

\* C8: replace(k, R) with k <= length leaves the window equal to R followed by
\* the old window without its first k elements; the length changes by |R| - k,
\* also beyond capacity.
C8_ReplaceSplice ==
    [][(last'.op = "replace" /\ ~last'.panic) =>
          LET k == last'.args[1]
              R == last'.args[2]
          IN  /\ k <= len(ib)
              /\ buffer(ib') = R \o SubSeq(buffer(ib), k + 1, len(ib))
              /\ len(ib') = len(ib) + Len(R) - k]_vars

C8_Witness ==
    /\ last.op = "replace" /\ ~last.panic
    /\ remove_count >= 1
    /\ Len(replacement_elements) = 2
    /\ replacement_elements[1] # replacement_elements[2]
    /\ len(ib) > capacity

\* C9: replace(k, R) with k <= length pulls nothing from the source, does not
\* refill, and leaves opening, closing and the source position as they were.
C9_ReplaceFrame ==
    [][(last'.op = "replace" /\ ~last'.panic) =>
          /\ ib'.iterator = ib.iterator
          /\ ib'.opening = ib.opening
          /\ ib'.closing = ib.closing
          /\ ib'.size = ib.size]_vars

C9_Witness ==
    /\ last.op = "replace" /\ ~last.panic
    /\ ~is_closing(ib) /\ len(ib) < capacity /\ pending # <<>>

\* C10 as stated: replace(k, R) with k > length signals the violation and leaves
\* the window, both flags and the source unchanged.
C10_ReplacePanicChangesNothing ==
    [][(last'.op = "replace" /\ last'.panic) => ib' = ib]_vars

\* the window a refill makes of the current one: topped up from the source to
\* capacity, unless the buffer is closing
refilled ==
    IF is_closing(ib) \/ len(ib) >= capacity
    THEN buffer(ib)
    ELSE LET room == capacity - len(ib)
             n    == IF room < Len(pending) THEN room ELSE Len(pending)
         IN  buffer(ib) \o SubSeq(pending, 1, n)

\* C11: a write at i refills first: it panics iff i >= the refilled length, and
\* otherwise the refilled window changes at position i alone; a read at i does
\* not refill and changes nothing, and panics iff i >= the current length.
C11_IndexAccess ==
    /\ [](\A i \in 0..(len(ib) + 1) :
             /\ index(ib, i).panic <=> i >= len(ib)
             /\ i < len(ib) => index(ib, i).res = Some(buffer(ib)[i + 1]))
    /\ [][/\ last'.op = "index" => (last'.panic /\ last'.args[1] >= len(ib) /\ ib' = ib)
          /\ last'.op = "index_mut" =>
                LET i     == last'.args[1]
                    value == last'.args[2]
                IN  /\ last'.panic <=> i >= Len(refilled)
                    /\ last'.panic => buffer(ib') = refilled
                    /\ ~last'.panic => buffer(ib') = [refilled EXCEPT ![i + 1] = value]
                    /\ is_opening(ib') = is_opening(ib)]_vars

\* after a replace that shortened the window, a write succeeds where a read fails
C11_Witness ==
    /\ last.op = "replace" /\ ~last.panic /\ ~is_closing(ib) /\ pending # <<>>
    /\ \E i \in 0..len(ib) : index(ib, i).panic /\ ~index_mut(ib, i).panic

\* p is a literal prefix of s
IsPrefix(p, s) == Len(p) <= Len(s) /\ \A j \in 1..Len(p) : p[j] = s[j]

\* C12 as stated: starts_with(p) holds iff no pop has occurred and p is a prefix
\* of the whole source sequence.
C12_StartsWithWholeSource ==
    \A p \in Slices :
        starts_with(ib, p) <=> (is_opening(ib) /\ IsPrefix(p, source))

\* C12 amended: starts_with(p) holds iff no pop has occurred and p is a prefix of
\* the current window; with no index write and no replace so far that is: p is a
\* prefix of the source of at most capacity elements.  After any pop it is false
\* for every p.
C12_StartsWithWindow ==
    /\ \A p \in Slices :
          starts_with(ib, p) <=> (is_opening(ib) /\ IsPrefix(p, buffer(ib)))
    /\ ~edited =>
          \A p \in Slices :
              starts_with(ib, p) <=>
                  (is_opening(ib) /\ IsPrefix(p, source) /\ Len(p) <= capacity)
    /\ (last.op = "pop" \/ popped # <<>>) =>
          \A p \in Slices : ~starts_with(ib, p)

\* a prefix of the source longer than the window is not found
C12_Witness ==
    /\ is_opening(ib) /\ ~edited
    /\ \E p \in Slices :
          IsPrefix(p, source) /\ Len(p) > len(ib) /\ ~starts_with(ib, p)

C14_NeverGrowsOnceClosing ==
    [][is_closing(ib) => len(ib') <= len(ib)]_vars

\* C14 amended: once closing holds, pop shortens a non-empty window by one, an
\* index write leaves its length alone, and replace(k, R) changes the length by
\* |R| - k: only a replace that inserts more than it removes makes it longer.
C14_OnlyReplaceGrowsOnceClosing ==
    [][is_closing(ib) =>
          /\ last'.op # "replace" => len(ib') <= len(ib)
          /\ last'.op = "pop" =>
                len(ib') = (IF len(ib) = 0 THEN 0 ELSE len(ib) - 1)
          /\ last'.op = "index_mut" => len(ib') = len(ib)
          /\ (last'.op = "replace" /\ ~last'.panic) =>
                len(ib') = len(ib) + Len(last'.args[2]) - last'.args[1]]_vars

\* a closing buffer (replace leaves the flag alone) grown by a replace
C14_Witness ==
    /\ is_closing(ib) /\ last.op = "replace" /\ ~last.panic
    /\ Len(replacement_elements) > remove_count
    /\ remove_count >= 1

(* ------------------------- test1 of buffer.rs -------------------------- *)
\* `IteratorBuffer::new((0..4), 2)`
Test1Source == <<0, 1, 2, 3>>
Test1Window == 2
\* `ib[1] = 5`
Test1Value == 5

InitTest1 ==
    /\ ib = new([seq |-> Test1Source, pos |-> 0, calls |-> 0], Test1Window)
    /\ last = Call("new", <<Test1Window>>, None, FALSE)
    /\ popped = <<>>
    /\ edited = FALSE
    /\ inserted = 0
    /\ replaced = FALSE
    /\ EqIdle

\* ib[i] = 5
IndexMutTest1 ==
    /\ ~last.panic
    /\ \E i \in 0..len(fill(ib)) :
          LET r == index_mut(ib, i)
          IN  /\ ib' = IF r.panic THEN r.self
                       ELSE [r.self EXCEPT !.buffer[i + 1] = Test1Value]
              /\ last' = Call("index_mut", <<i, Test1Value>>, None, r.panic)
    /\ edited' = TRUE
    /\ UNCHANGED <<popped, inserted, replaced>>
    /\ UNCHANGED eqvars

NextTest1 == Pop \/ Index \/ IndexMutTest1 \/ StartsWith \/ EndsWith

SpecTest1 == InitTest1 /\ [][NextTest1]_vars

\* C15: the run of test1, step by step.  After new the window is <<0,1,2>>,
\* ib[0] is 0 and starts_with([0,1]) holds; the first pop returns 0 and leaves
\* <<1,2,3>>, not closing, with starts_with([1,2]) false; writing 5 at index 1
\* then gives <<1,5,3>>; the pop after it returns 1, the buffer is closing and
\* ends_with([5,3]) holds; the next pops return 5, 3 and None.
C15_Test1Trace ==
    /\ [](/\ last.op = "new" =>
                /\ buffer(ib) = <<0, 1, 2>>
                /\ index(ib, 0) = [res |-> Some(0), panic |-> FALSE]
                /\ starts_with(ib, <<0, 1>>)
          /\ (~edited /\ last.op = "pop" /\ Len(popped) = 1) =>
                /\ last.res = Some(0)
                /\ buffer(ib) = <<1, 2, 3>>
                /\ index(ib, 0) = [res |-> Some(1), panic |-> FALSE]
                /\ ~is_closing(ib)
                /\ ~starts_with(ib, <<1, 2>>))
    /\ [][/\ (~edited /\ last.op = "pop" /\ Len(popped) = 1
                /\ last'.op = "index_mut" /\ last'.args = <<1, Test1Value>>) =>
                (~last'.panic /\ buffer(ib') = <<1, 5, 3>> /\ popped' = <<0>>)
          /\ (popped = <<0>> /\ buffer(ib) = <<1, 5, 3>> /\ last'.op = "pop") =>
                /\ last'.res = Some(1)
                /\ is_closing(ib')
                /\ ends_with(ib', <<5, 3>>)
                /\ buffer(ib') = <<5, 3>>
          /\ (popped = <<0, 1>> /\ buffer(ib) = <<5, 3>> /\ last'.op = "pop") =>
                (last'.res = Some(5) /\ buffer(ib') = <<3>>)
          /\ (popped = <<0, 1, 5>> /\ buffer(ib) = <<3>> /\ last'.op = "pop") =>
                (last'.res = Some(3) /\ buffer(ib') = <<>>)
          /\ (popped = <<0, 1, 5, 3>> /\ buffer(ib) = <<>> /\ last'.op = "pop") =>
                (last'.res = None /\ buffer(ib') = <<>>)]_vars

\* the end of the run: 0, 1, 5, 3 popped and the latest pop returned None
C15_Witness ==
    /\ popped = <<0, 1, 5, 3>> /\ last.op = "pop" /\ last.res = None
    /\ is_closing(ib) /\ buffer(ib) = <<>>

(* ------------------- grouping: equivalence_class.rs -------------------- *)
\* longest collection grouped
MaxVec == 3

Vects == SeqsUpTo(MaxVec)
\* every binary predicate over the element values
Predicates == SUBSET (Elt \X Elt)

\* the documented example: `vec!{0usize,2,1,3,4,5}` grouped by `|l,r| l%2 == r%2`
DocVect == <<0, 2, 1, 3, 4, 5>>
SameParity == {lr \in (0..5) \X (0..5) : lr[1] % 2 = lr[2] % 2}

InitEq ==
    /\ ib = new(Empty, 0)
    /\ last = Call("new", <<0>>, None, FALSE)
    /\ popped = <<>>
    /\ edited = FALSE
    /\ inserted = 0
    /\ replaced = FALSE
    /\ \/ \E v \in Vects, f \in Predicates : eq = equivalence_classes(v, f)
       \/ eq = equivalence_classes(DocVect, SameParity)
    /\ runs = <<>>
    /\ ended = FALSE

\* eq.next(); a caller is followed for one call beyond |vect| runs
EqNext ==
    /\ Len(runs) <= Len(eq.vect)
    /\ LET r == EqClIter_next(eq)
       IN  /\ eq' = r.self
           /\ runs' = IF r.res = None THEN runs ELSE Append(runs, r.res[1])
           /\ ended' = (r.res = None)
    /\ UNCHANGED bufvars

NextEq == EqNext

SpecEq == InitEq /\ [][NextEq]_vars

Elems(v) == {v[j] : j \in 1..Len(v)}

IsEquivalenceOn(f, S) ==
    /\ \A x \in S : <<x, x>> \in f
    /\ \A x, y \in S : <<x, y>> \in f => <<y, x>> \in f
    /\ \A x, y, z \in S : (<<x, y>> \in f /\ <<y, z>> \in f) => <<x, z>> \in f

\* the first n runs yielded, one after the other
RECURSIVE Flatten(_, _)
Flatten(rs, n) == IF n = 0 THEN <<>> ELSE Flatten(rs, n - 1) \o rs[n]

\* C16: for an equivalence predicate, the runs yielded so far are non-empty, laid
\* end to end they are the part of the collection before the cursor, every
\* element of a run is equivalent to the run's first, the element right after a
\* run is not; None comes exactly when the whole collection has been yielded.
\* [0,2,1,3,4,5] by parity gives [0,2], [1,3], [4], [5].
C16_EquivalenceRuns ==
    IsEquivalenceOn(eq.pred, Elems(eq.vect)) =>
        /\ \A k \in 1..Len(runs) :
              /\ runs[k] # <<>>
              /\ \A j \in 1..Len(runs[k]) : <<runs[k][1], runs[k][j]>> \in eq.pred
              /\ LET after == Len(Flatten(runs, k))
                 IN  after < Len(eq.vect) =>
                         <<runs[k][1], eq.vect[after + 1]>> \notin eq.pred
        /\ eq.last <= Len(eq.vect)
        /\ Flatten(runs, Len(runs)) = SubSeq(eq.vect, 1, eq.last)
        /\ ended => Flatten(runs, Len(runs)) = eq.vect
        /\ Flatten(runs, Len(runs)) = eq.vect => EqClIter_next(eq).res = None
        /\ Flatten(runs, Len(runs)) # eq.vect => EqClIter_next(eq).res # None
        /\ (eq.vect = DocVect /\ eq.pred = SameParity /\ ended) =>
              runs = << <<0, 2>>, <<1, 3>>, <<4>>, <<5>> >>

C16_Witness ==
    /\ eq.vect = DocVect /\ eq.pred = SameParity /\ ended
    /\ runs = << <<0, 2>>, <<1, 3>>, <<4>>, <<5>> >>

\* C17 as stated: whenever the source has no element left to yield, ends_with of
\* the whole window holds.
C17_EndsWithOnceDrained ==
    pending = <<>> => ends_with(ib, buffer(ib))

\* C17 amended: ends_with of the whole window holds exactly when the source has
\* reported exhaustion (closing); a source drained to its last element that has
\* not yet been asked for more leaves ends_with false.
C17_EndsWithOnceClosing ==
    /\ is_closing(ib) => (pending = <<>> /\ ends_with(ib, buffer(ib)))
    /\ ~is_closing(ib) => ~ends_with(ib, buffer(ib))

\* every source element is in the buffer or popped, and the source has not been
\* asked again: the suffix test is still false
C17_Witness ==
    /\ pending = <<>> /\ ~is_closing(ib) /\ len(ib) >= 1 /\ popped # <<>>
    /\ ~ends_with(ib, buffer(ib))

\* k calls of pop, the results discarded
RECURSIVE pops(_, _)
pops(self, k) == IF k = 0 THEN self ELSE pops(pop(self).self, k - 1)

\* replace(k, []) and the refill that follows it
replace_then_fill(self, k) == fill(replace(self, k, <<>>).self)

\* replace(k, []) then a refill leaves the old window without its first k
\* elements, followed by the source elements the refill pulled, in order
SurvivorsThenSource(k) ==
    LET a == replace_then_fill(ib, k)
    IN  /\ a.buffer = SubSeq(buffer(ib), k + 1, len(ib))
                        \o SubSeq(source, ib.iterator.pos + 1, a.iterator.pos)
        /\ a.closing \/ Len(a.buffer) >= capacity

\* the two paths end in the same buffer but for the opening flag
SameAsPops(k) ==
    replace_then_fill(ib, k) = [pops(ib, k) EXCEPT !.opening = ib.opening]

\* C18 as stated: for every k <= length, replace(k, []) then a refill keeps the
\* survivors and tops up from the source, and gives the window and closing flag
\* that k pops give.
C18_ReplaceEmptyIsPops ==
    ~last.panic =>
        \A k \in 0..len(ib) : SurvivorsThenSource(k) /\ SameAsPops(k)

\* C18 amended: the first part for every k <= length; the agreement with k pops
\* for 1 <= k <= length, and for k = 0 when a refill would change nothing.
C18_ReplaceEmptyIsPopsFromOne ==
    ~last.panic =>
        /\ \A k \in 0..len(ib) : SurvivorsThenSource(k)
        /\ \A k \in 1..len(ib) :
              /\ SameAsPops(k)
              /\ ~pops(ib, k).opening
        /\ fill(ib) = ib => SameAsPops(0)

\* a window a replace left short: one more replace(1, []) and a refill pull from
\* the source, as one pop does
C18_Witness ==
    /\ ~last.panic /\ replaced /\ is_opening(ib) /\ len(ib) >= 1
    /\ replace_then_fill(ib, 1).iterator.pos > ib.iterator.pos
    /\ replace_then_fill(ib, 1).buffer = pops(ib, 1).buffer

\* C19 as stated: for every binary predicate, reflexive or not, each next() that
\* yields a run moves the cursor forward by at least one element, so no run is
\* empty and at most |vect| runs are yielded before None.
C19_EveryRunAdvances ==
    /\ [](/\ Len(runs) <= Len(eq.vect)
          /\ \A k \in 1..Len(runs) : runs[k] # <<>>)
    /\ [][runs' # runs => eq'.last > eq.last]_vars

\* how many elements have been pulled from the source
pulled == ib.iterator.pos

\* C20: the source is asked only by an operation that refills (pop, index write),
\* only while the buffer is not closing and below capacity, one element per call;
\* in a run without replace the elements pulled are those popped plus those in
\* the window, and while the source has not run out that is pops + window_size + 1.
C20_LazyAdvance ==
    /\ [](~replaced =>
             /\ pulled = Len(popped) + len(ib)
             /\ ~is_closing(ib) => pulled = Len(popped) + window_size + 1)
    /\ [][ib'.iterator # ib.iterator =>
             /\ last'.op \in {"pop", "index_mut"}
             /\ ~is_closing(ib)
             /\ ib'.iterator.pos >= ib.iterator.pos
             /\ ib'.iterator.pos > ib.iterator.pos => len(ib') <= capacity
             /\ is_closing(ib') => len(ib') < capacity
             /\ ib'.iterator.calls - ib.iterator.calls
                  = (ib'.iterator.pos - ib.iterator.pos)
                      + (IF is_closing(ib') THEN 1 ELSE 0)]_vars

C20_Witness ==
    /\ ~replaced /\ edited /\ last.op = "pop" /\ Len(popped) >= 1
    /\ ~is_closing(ib) /\ pulled = Len(popped) + window_size + 1

=============================================================================
